---- MODULE Spec2Model ----
(***************************************************************************)
(* ZwoHash (src/src/lib.rs): the ZwoHasher accumulator, its word absorb    *)
(* write_usize, its byte-slice absorb write, the fixed-width integer       *)
(* absorbs and the finalisation finish.                                    *)
(*                                                                         *)
(* A machine word is a sequence of bytes (0..255), least significant byte  *)
(* first: a usize has USIZE_BYTES of them, a u64 has 8, a WideInt has      *)
(* 2 * USIZE_BYTES.  All arithmetic is done on these bytes, so that every  *)
(* operation keeps the width it has in the program.                        *)
(***************************************************************************)
EXTENDS Integers, Sequences, FiniteSets

VARIABLES
    width,        \* cfg(target_pointer_width): 32 or 64
    big_endian,   \* cfg(target_endian = "big")
    state,        \* ZwoHasher.state
    log,          \* the words handed to write_usize by the most recent call
    op,           \* the most recent call: [name, arg, pre], pre the state before it
    digest,       \* what the most recent finish returned (<<>> after an absorb)
    history,      \* the calls since construction, in order: [name, arg, ret] each
    test          \* the loop variables of a test harness (<<>> when none runs)

vars == <<width, big_endian, state, log, op, digest, history, test>>

(***************************************************************************)
(* Bytes and bits.                                                         *)
(***************************************************************************)
Pow2(k) == 2 ^ k

Zeros(n) == [k \in 1..n |-> 0]

\* The low n bytes of w, zero-filled above Len(w): an `as` cast between unsigned types.
Cast(w, n) == [k \in 1..n |-> IF k <= Len(w) THEN w[k] ELSE 0]

\* Byte k of w, 0 outside it.
ByteAt(w, k) == IF 1 <= k /\ k <= Len(w) THEN w[k] ELSE 0

\* w >> r
Shr(w, r) ==
    LET q == r \div 8
        s == r % 8
    IN  [k \in 1..Len(w) |->
            (ByteAt(w, k + q) \div Pow2(s)) + ((ByteAt(w, k + q + 1) % Pow2(s)) * Pow2(8 - s))]

\* w << r
Shl(w, r) ==
    LET q == r \div 8
        s == r % 8
    IN  [k \in 1..Len(w) |->
            ((ByteAt(w, k - q) * Pow2(s)) % 256) + (ByteAt(w, k - q - 1) \div Pow2(8 - s))]

\* Bit k (0 = least significant) of the word w.
Bit(w, k) == (w[(k \div 8) + 1] \div Pow2(k % 8)) % 2

RECURSIVE XorBits(_, _)
XorBits(a, b) ==
    IF a = 0 THEN b
    ELSE IF b = 0 THEN a
    ELSE ((a + b) % 2) + 2 * XorBits(a \div 2, b \div 2)

RECURSIVE AndBits(_, _)
AndBits(a, b) ==
    IF a = 0 \/ b = 0 THEN 0
    ELSE ((a % 2) * (b % 2)) + 2 * AndBits(a \div 2, b \div 2)

\* a | b
OrBits(a, b) == a + b - AndBits(a, b)

\* a ^ b on words of the same width
Xor(a, b) == [k \in 1..Len(a) |-> XorBits(a[k], b[k])]

(***************************************************************************)
(* Word arithmetic.                                                        *)
(***************************************************************************)
\* Column k (1-based) of the schoolbook product: the sum of a[i] * b[j], i + j = k + 1.
RECURSIVE Column(_, _, _, _)
Column(a, b, k, i) ==
    IF i > Len(a) \/ i > k THEN 0
    ELSE (IF k + 1 - i <= Len(b) THEN a[i] * b[k + 1 - i] ELSE 0) + Column(a, b, k, i + 1)

\* Bytes k..n of the product of a and b, given the carry into byte k.
RECURSIVE MulFrom(_, _, _, _, _)
MulFrom(a, b, k, n, carry) ==
    IF k > n THEN <<>>
    ELSE LET t == Column(a, b, k, 1) + carry
         IN  <<t % 256>> \o MulFrom(a, b, k + 1, n, t \div 256)

\* usize::wrapping_mul: the low Len(a) bytes of the product.
wrapping_mul(a, b) == MulFrom(a, b, 1, Len(a), 0)

\* (a as WideInt) * (b as WideInt): the whole product, twice as wide as a.
WideMul(a, b) == MulFrom(a, b, 1, 2 * Len(a), 0)

\* Bytes k.. of a - b, given the borrow into byte k.
RECURSIVE SubFrom(_, _, _, _)
SubFrom(a, b, k, borrow) ==
    IF k > Len(a) THEN <<>>
    ELSE LET t == a[k] - b[k] - borrow
         IN  <<t % 256>> \o SubFrom(a, b, k + 1, IF t < 0 THEN 1 ELSE 0)

\* usize::wrapping_sub
wrapping_sub(a, b) == SubFrom(a, b, 1, 0)

\* usize::rotate_right: bit k of the result is bit (k + r) mod bits of a.
rotate_right(a, r) ==
    LET n  == Len(a)
        q  == r \div 8
        s  == r % 8
        At(k) == a[((k - 1 + q) % n) + 1]
    IN  [k \in 1..n |-> (At(k) \div Pow2(s)) + ((At(k + 1) % Pow2(s)) * Pow2(8 - s))]

(***************************************************************************)
(* The constants of lib.rs.                                                *)
(***************************************************************************)
M64 == <<29, 221, 108, 79, 145, 244, 69, 37>>      \* 0x2545f4914f6cdd1d

M32 == <<181, 119, 146, 44>>                       \* 0x2c9277b5

R64 == 41

R32 == 21

M == IF width = 64 THEN M64 ELSE M32

R == IF width = 64 THEN R64 ELSE R32

USIZE_BITS == width

USIZE_BYTES == width \div 8

\* The bytes of the number n, least significant first, in a word of nbytes bytes.
RECURSIVE Bytes(_, _)
Bytes(n, nbytes) ==
    IF nbytes = 0 THEN <<>> ELSE <<n % 256>> \o Bytes(n \div 256, nbytes - 1)

\* n as usize, for a number n the model can hold (a length, a small value)
Usize(n) == Bytes(n, USIZE_BYTES)

(***************************************************************************)
(* ZwoHasher.  A hasher h is [state, log]: log is the instrumentation that *)
(* records each word write_usize was called with.                          *)
(***************************************************************************)
\* A variant that folds the word in before the multiplication, as FxHash does.
write_usize_XorFirst(h, i) ==
    [state |-> rotate_right(wrapping_mul(Xor(h.state, i), M), R),
     log   |-> Append(h.log, i)]

\* A variant whose multiplier is even: M with its lowest bit cleared.
write_usize_EvenMultiplier(h, i) ==
    [state |-> Xor(rotate_right(wrapping_mul(h.state, Xor(M, Usize(1))), R), i),
     log   |-> Append(h.log, i)]

write_usize(h, i) ==
    [state |-> Xor(rotate_right(wrapping_mul(h.state, M), R), i),
     log   |-> Append(h.log, i)]

\* A variant with the truncating multiplication of write_usize: no high half.
finish_Truncating(s) == Cast(wrapping_mul(s, M), 8)

finish(s) ==
    LET wide == WideMul(s, M)
        lo   == SubSeq(wide, 1, USIZE_BYTES)
        hi   == SubSeq(wide, USIZE_BYTES + 1, 2 * USIZE_BYTES)
    IN  Cast(wrapping_sub(lo, hi), 8)

\* usize::from_ne_bytes: the word whose bytes in memory, lowest address first, are b.
from_ne_bytes(b) ==
    IF big_endian THEN [k \in 1..Len(b) |-> b[Len(b) + 1 - k]] ELSE b

\* bytes.chunks_exact(USIZE_BYTES): the whole chunks, left to right.
chunks_exact(bytes) ==
    [c \in 1..(Len(bytes) \div USIZE_BYTES) |->
        SubSeq(bytes, (c - 1) * USIZE_BYTES + 1, c * USIZE_BYTES)]

\* chunks.remainder(): the bytes after the last whole chunk.
remainder(bytes) ==
    SubSeq(bytes, (Len(bytes) \div USIZE_BYTES) * USIZE_BYTES + 1, Len(bytes))

\* The loop over the whole chunks (lib.rs 151-155), from chunk c on.
RECURSIVE WriteChunks(_, _, _)
WriteChunks(h, chunks, c) ==
    IF c > Len(chunks) THEN h
    ELSE WriteChunks(write_usize(h, from_ne_bytes(chunks[c])), chunks, c + 1)

\* All powers of two less than USIZE_BYTES, largest first.
partial_steps == IF width = 64 THEN <<4, 2, 1>> ELSE <<2, 1>>

\* A pointer is a buffer and a byte offset into it.
\* padded_chunk.as_mut_ptr().add(byte_offset)
dst_ptr(byte_offset) == [buf |-> "padded_chunk", at |-> byte_offset]

\* A variant that reads partial_chunk in every iteration.
src_ptr_AlwaysPartial(partial_chunk, byte_offset, step) ==
    [buf |-> "partial_chunk", at |-> byte_offset]

\* The source of ptr::copy: partial_chunk.as_ptr().add(byte_offset) when the bit
\* of step is set in partial_chunk.len(), the destination itself otherwise.
src_ptr(partial_chunk, byte_offset, step) ==
    IF AndBits(Len(partial_chunk), step) # 0
    THEN [buf |-> "partial_chunk", at |-> byte_offset]
    ELSE dst_ptr(byte_offset)

\* ptr::copy(src, dst, step): padded_chunk after the copy of step bytes.
PtrCopy(padded_chunk, partial_chunk, byte_offset, step) ==
    LET src == src_ptr(partial_chunk, byte_offset, step)
        dst == dst_ptr(byte_offset)
        Read(k) == IF src.buf = "partial_chunk" THEN partial_chunk[src.at + k]
                   ELSE padded_chunk[src.at + k]
    IN  [k \in 1..Len(padded_chunk) |->
            IF dst.at < k /\ k <= dst.at + step
            THEN Read(k - dst.at) ELSE padded_chunk[k]]

\* The loop over partial_steps (lib.rs 176-211), from step number n on: the pair
\* of padded_chunk and byte_offset it ends with.
RECURSIVE PadLoop(_, _, _, _)
PadLoop(padded_chunk, byte_offset, partial_chunk, n) ==
    IF n > Len(partial_steps) THEN [padded_chunk |-> padded_chunk, byte_offset |-> byte_offset]
    ELSE LET step == partial_steps[n]
         IN  PadLoop(PtrCopy(padded_chunk, partial_chunk, byte_offset, step),
                     OrBits(byte_offset, AndBits(step, Len(partial_chunk))),
                     partial_chunk, n + 1)

\* A variant that absorbs the padded chunk only when there are trailing bytes.
write_SkipEmptyRemainder(h, bytes) ==
    LET copy0  == write_usize(h, Usize(Len(bytes)))
        copy1  == WriteChunks(copy0, chunks_exact(bytes), 1)
        padded == PadLoop(Zeros(USIZE_BYTES), 0, remainder(bytes), 1).padded_chunk
    IN  IF remainder(bytes) = <<>> THEN copy1 ELSE write_usize(copy1, from_ne_bytes(padded))

\* A variant that does not absorb the length.
write_NoLength(h, bytes) ==
    LET copy1  == WriteChunks(h, chunks_exact(bytes), 1)
        padded == PadLoop(Zeros(USIZE_BYTES), 0, remainder(bytes), 1).padded_chunk
    IN  write_usize(copy1, from_ne_bytes(padded))

\* Hasher::write, on the local copy of the hasher.
write(h, bytes) ==
    LET copy0  == write_usize(h, Usize(Len(bytes)))
        copy1  == WriteChunks(copy0, chunks_exact(bytes), 1)
        padded == PadLoop(Zeros(USIZE_BYTES), 0, remainder(bytes), 1).padded_chunk
    IN  write_usize(copy1, from_ne_bytes(padded))

(***************************************************************************)
(* The integer absorbs.  An unsigned value is the word of its type's       *)
(* width; a signed value i is [neg, mag]: its sign and the word of its     *)
(* magnitude, so that a cast to unsigned has the two's complement to form. *)
(***************************************************************************)
\* i as uN for a signed i of the same width, n bytes: i modulo 2^(8n).
AsUnsigned(i, n) ==
    IF i.neg THEN wrapping_sub(Zeros(n), Cast(i.mag, n)) ELSE Cast(i.mag, n)

write_u8(h, i) == write_usize(h, Cast(i, USIZE_BYTES))

write_u16(h, i) == write_usize(h, Cast(i, USIZE_BYTES))

write_u32(h, i) == write_usize(h, Cast(i, USIZE_BYTES))

write_u64(h, i) ==
    IF width = 64
    THEN write_usize(h, Cast(i, USIZE_BYTES))
    ELSE write_usize(write_usize(h, Cast(i, USIZE_BYTES)), Cast(Shr(i, 32), USIZE_BYTES))

write_u128(h, i) == write_u64(write_u64(h, Cast(i, 8)), Cast(Shr(i, 64), 8))

\* A variant that widens the signed value itself: i as usize, which extends the sign.
write_i8_SignExtending(h, i) == write_usize(h, AsUnsigned(i, USIZE_BYTES))

write_i8(h, i) == write_u8(h, AsUnsigned(i, 1))

write_i16(h, i) == write_u16(h, AsUnsigned(i, 2))

write_i32(h, i) == write_u32(h, AsUnsigned(i, 4))

write_i64(h, i) == write_u64(h, AsUnsigned(i, 8))

write_i128(h, i) == write_u128(h, AsUnsigned(i, 16))

write_isize(h, i) == write_usize(h, AsUnsigned(i, USIZE_BYTES))

\* The integer types of the absorbs: the method, the bytes of the type, its signedness.
IntTypes ==
    {[name |-> "write_u8",    bytes |-> 1,           signed |-> FALSE],
     [name |-> "write_u16",   bytes |-> 2,           signed |-> FALSE],
     [name |-> "write_u32",   bytes |-> 4,           signed |-> FALSE],
     [name |-> "write_u64",   bytes |-> 8,           signed |-> FALSE],
     [name |-> "write_u128",  bytes |-> 16,          signed |-> FALSE],
     [name |-> "write_i8",    bytes |-> 1,           signed |-> TRUE],
     [name |-> "write_i16",   bytes |-> 2,           signed |-> TRUE],
     [name |-> "write_i32",   bytes |-> 4,           signed |-> TRUE],
     [name |-> "write_i64",   bytes |-> 8,           signed |-> TRUE],
     [name |-> "write_i128",  bytes |-> 16,          signed |-> TRUE],
     [name |-> "write_isize", bytes |-> USIZE_BYTES, signed |-> TRUE]}

\* The call of the method named name.
IntCall(name, h, i) ==
    CASE name = "write_u8"    -> write_u8(h, i)
      [] name = "write_u16"   -> write_u16(h, i)
      [] name = "write_u32"   -> write_u32(h, i)
      [] name = "write_u64"   -> write_u64(h, i)
      [] name = "write_u128"  -> write_u128(h, i)
      [] name = "write_i8"    -> write_i8(h, i)
      [] name = "write_i16"   -> write_i16(h, i)
      [] name = "write_i32"   -> write_i32(h, i)
      [] name = "write_i64"   -> write_i64(h, i)
      [] name = "write_i128"  -> write_i128(h, i)
      [] name = "write_isize" -> write_isize(h, i)

(***************************************************************************)
(* Bounds and inputs.                                                      *)
(***************************************************************************)
\* Calls in one run of Spec.
MaxOps == 4

\* The longest byte slice handed to write.
MaxLen == 17

Ones(n) == [k \in 1..n |-> 255]

TopBit(n) == [k \in 1..n |-> IF k = n THEN 128 ELSE 0]

\* The words handed to write_usize.
Words == {Zeros(USIZE_BYTES), Usize(1), Ones(USIZE_BYTES), TopBit(USIZE_BYTES), M}

Hel == <<104, 101, 108>>

\* Byte k of a slice: all zero, the text "hello" repeated, or "hel" followed by zeros.
PatternByte(p, k) ==
    CASE p = "zeros" -> 0
      [] p = "text"  -> <<104, 101, 108, 108, 111>>[((k - 1) % 5) + 1]
      [] p = "hel0"  -> IF k <= 3 THEN Hel[k] ELSE 0

\* The byte slices handed to write.
Slices ==
    {[k \in 1..n |-> PatternByte(p, k)] : p \in {"zeros", "text", "hel0"}, n \in 0..MaxLen}

\* The bytes 0x11, 0x22, ... of a word of n bytes: every byte different, the top bit clear.
Ramp(n) == [k \in 1..n |-> (17 * k) % 128]

\* The unsigned values of n bytes handed to an integer absorb.
UnsignedValues(n) == {Zeros(n), Bytes(1, n), Ones(n), TopBit(n), Ramp(n)}

\* The signed values of n bytes: 0, 1, -1, the least, the greatest, and two of mixed bytes.
SignedValues(n) ==
    {[neg |-> FALSE, mag |-> Zeros(n)],
     [neg |-> FALSE, mag |-> Bytes(1, n)],
     [neg |-> TRUE,  mag |-> Bytes(1, n)],
     [neg |-> TRUE,  mag |-> TopBit(n)],
     [neg |-> FALSE, mag |-> [k \in 1..n |-> IF k = n THEN 127 ELSE 255]],
     [neg |-> FALSE, mag |-> Ramp(n)],
     [neg |-> TRUE,  mag |-> Ramp(n)]}

IntValues(ty) == IF ty.signed THEN SignedValues(ty.bytes) ELSE UnsignedValues(ty.bytes)

\* The short slices and the words of a run of several absorbs.
SeqSlices == {<<>>, <<0>>, Hel}

SeqWords == {Zeros(USIZE_BYTES), Usize(1), Ones(USIZE_BYTES)}

(***************************************************************************)
(* The calls on a ZwoHasher.                                               *)
(***************************************************************************)
\* ZwoHasher::default()
Hasher(s) == [state |-> s, log |-> <<>>]

Default ==
    /\ state = Zeros(USIZE_BYTES)
    /\ log = <<>>
    /\ op = [name |-> "default", arg |-> <<>>, pre |-> <<>>]
    /\ digest = <<>>
    /\ history = <<>>

\* An absorbing call returned, leaving the hasher h.
Absorbed(name, arg, h) ==
    /\ state' = h.state
    /\ log' = h.log
    /\ op' = [name |-> name, arg |-> arg, pre |-> state]
    /\ digest' = <<>>
    /\ history' = Append(history, [name |-> name, arg |-> arg, ret |-> <<>>])
    /\ UNCHANGED <<width, big_endian>>

WriteUsize(i) ==
    /\ Absorbed("write_usize", i, write_usize(Hasher(state), i))
    /\ UNCHANGED test

Write(bytes) ==
    /\ Absorbed("write", bytes, write(Hasher(state), bytes))
    /\ UNCHANGED test

WriteInt(ty, i) ==
    /\ Absorbed(ty.name, i, IntCall(ty.name, Hasher(state), i))
    /\ UNCHANGED test

\* A variant that keeps the mixed word as the new state.
Finish_Storing ==
    /\ digest' = finish(state)
    /\ op' = [name |-> "finish", arg |-> <<>>, pre |-> state]
    /\ log' = <<>>
    /\ history' = Append(history, [name |-> "finish", arg |-> <<>>, ret |-> finish(state)])
    /\ state' = Cast(finish(state), USIZE_BYTES)
    /\ UNCHANGED <<width, big_endian, test>>

\* finish(&self): the digest is returned and the hasher is left as it is.
Finish ==
    /\ digest' = finish(state)
    /\ op' = [name |-> "finish", arg |-> <<>>, pre |-> state]
    /\ log' = <<>>
    /\ history' = Append(history, [name |-> "finish", arg |-> <<>>, ret |-> finish(state)])
    /\ UNCHANGED <<width, big_endian, state, test>>

\* The state of a hasher in state s after the absorbs among the calls h[k..n], its
\* finish calls left out.
RECURSIVE Replay(_, _, _, _)
Replay(s, h, k, n) ==
    IF k > n THEN s
    ELSE Replay(CASE h[k].name = "write_usize" -> write_usize(Hasher(s), h[k].arg).state
                  [] h[k].name = "write"       -> write(Hasher(s), h[k].arg).state
                  [] h[k].name = "finish"      -> s,
                h, k + 1, n)

(***************************************************************************)
(* Spec: a fresh hasher and up to MaxOps absorbs, finish at any point.     *)
(***************************************************************************)
Init ==
    /\ width \in {32, 64}
    /\ big_endian \in BOOLEAN
    /\ Default
    /\ test = <<>>

Next ==
    \/ Len(history) < MaxOps /\ \E i \in SeqWords : WriteUsize(i)
    \/ Len(history) < MaxOps /\ \E bytes \in SeqSlices : Write(bytes)
    \/ Len(history) < MaxOps /\ Finish

Spec == Init /\ [][Next]_vars

(***************************************************************************)
(* SpecFn: a hasher that has absorbed one of Words, which leaves it in that *)
(* state, then one absorb with the whole range of arguments; finish after  *)
(* either.                                                                 *)
(***************************************************************************)
InitFn ==
    /\ width \in {32, 64}
    /\ big_endian \in BOOLEAN
    /\ \E seed \in Words :
        /\ state = write_usize(Hasher(Zeros(USIZE_BYTES)), seed).state
        /\ log = <<seed>>
        /\ op = [name |-> "write_usize", arg |-> seed, pre |-> Zeros(USIZE_BYTES)]
        /\ history = <<[name |-> "write_usize", arg |-> seed, ret |-> <<>>]>>
    /\ digest = <<>>
    /\ test = <<>>

NextFn ==
    \/ Len(history) = 1 /\ \E i \in Words : WriteUsize(i)
    \/ Len(history) = 1 /\ \E bytes \in Slices : Write(bytes)
    \/ Len(history) <= 2 /\ op.name # "finish" /\ Finish

SpecFn == InitFn /\ [][NextFn]_vars

(***************************************************************************)
(* SpecInt: a hasher that has absorbed one of Words, then one integer      *)
(* absorb.                                                                 *)
(***************************************************************************)
NextInt ==
    Len(history) = 1 /\ \E ty \in IntTypes : \E i \in IntValues(ty) : WriteInt(ty, i)

SpecInt == InitFn /\ [][NextInt]_vars

(***************************************************************************)
(* SpecTest: tests::usize_byte_subbword_collision_rate.  The two loops     *)
(* over the input window i and the output window j, one pair a step; here  *)
(* they run to the last position at which a window fits in the word, one   *)
(* further each than the loops of the test.                                *)
(***************************************************************************)
\* tests::hash_usize
hash_usize(value) ==
    LET hasher == write_usize(Hasher(Zeros(USIZE_BYTES)), value)
    IN  Cast(finish(hasher.state), USIZE_BYTES)

\* hash_usize(b << i) for b = 0..255, in a sequence: entry b + 1 is the hash of b << i.
\* The test computes them anew for each j; they do not depend on j.
Hashes(i) == [b1 \in 1..256 |-> hash_usize(Shl(Usize(b1 - 1), i))]

\* hash_subbytes after sort and dedup, for the output window j
hash_subbytes(hashes, j) == {Cast(Shr(hashes[b1], j), 2) : b1 \in 1..256}

\* The loop variables, the hashes for i, and the length of hash_subbytes for i and j.
TestAt(i, j, hashes) ==
    [i |-> i, j |-> j, hashes |-> hashes, len |-> Cardinality(hash_subbytes(hashes, j))]

InitTest ==
    /\ width \in {32, 64}
    /\ big_endian \in BOOLEAN
    /\ Default
    /\ test = <<>>

\* One turn of the inner loop: the first of all, the next j, or the next i and its first j.
NextWindow ==
    /\ \/ /\ test = <<>>
          /\ test' = TestAt(0, 0, Hashes(0))
       \/ /\ test # <<>>
          /\ test.j < USIZE_BITS - 16
          /\ test' = TestAt(test.i, test.j + 1, test.hashes)
       \/ /\ test # <<>>
          /\ test.j = USIZE_BITS - 16
          /\ test.i < USIZE_BITS - 8
          /\ test' = TestAt(test.i + 1, 0, Hashes(test.i + 1))
    /\ UNCHANGED <<width, big_endian, state, log, op, digest, history>>

SpecTest == InitTest /\ [][NextWindow]_vars

(***************************************************************************)
(* SpecProbe: a hasher that absorbs the word 1 again and again.  Before    *)
(* each absorb, test.affected[i] gains the digest bits that change when    *)
(* bit i of the state is flipped.                                          *)
(***************************************************************************)
\* States looked at in one run of SpecProbe.
MaxProbes == 71

\* s with bit i flipped
FlipBit(s, i) ==
    [k \in 1..Len(s) |->
        IF k = (i \div 8) + 1
        THEN IF Bit(s, i) = 1 THEN s[k] - Pow2(i % 8) ELSE s[k] + Pow2(i % 8)
        ELSE s[k]]

\* The digest bits that differ when bit i of the state s is flipped.
Influence(s, i) ==
    LET d == Xor(finish(s), finish(FlipBit(s, i)))
    IN  {j \in 0..(USIZE_BITS - 1) : Bit(d, j) = 1}

InitProbe ==
    /\ width \in {32, 64}
    /\ big_endian \in BOOLEAN
    /\ Default
    /\ test = [n |-> 0, affected |-> [i \in 0..(USIZE_BITS - 1) |-> {}]]

Probe ==
    /\ test.n < MaxProbes
    /\ test' = [n |-> test.n + 1,
                affected |-> [i \in 0..(USIZE_BITS - 1) |->
                                 test.affected[i] \cup Influence(state, i)]]
    /\ Absorbed("write_usize", Usize(1), write_usize(Hasher(state), Usize(1)))

SpecProbe == InitProbe /\ [][Probe]_vars

(***************************************************************************)
(* SpecPad: one call of write on a hasher that has absorbed one of Words,  *)
(* followed step by step through the loop over partial_steps.  test holds  *)
(* the locals of write: the slice, the local copy of the hasher after the  *)
(* whole chunks, partial_chunk, padded_chunk, byte_offset and the number n *)
(* of the step the loop is about to take.                                  *)
(***************************************************************************)
\* write up to the loop: the length and the whole chunks are absorbed.
WriteBegin(bytes) ==
    /\ test = <<>>
    /\ test' = [pc            |-> "loop",
                bytes         |-> bytes,
                copy          |-> WriteChunks(write_usize(Hasher(state), Usize(Len(bytes))),
                                              chunks_exact(bytes), 1),
                partial_chunk |-> remainder(bytes),
                padded_chunk  |-> Zeros(USIZE_BYTES),
                byte_offset   |-> 0,
                n             |-> 1]
    /\ UNCHANGED <<width, big_endian, state, log, op, digest, history>>

\* One iteration of the loop over partial_steps.
PadStep ==
    /\ test # <<>>
    /\ test.pc = "loop"
    /\ test.n <= Len(partial_steps)
    /\ LET step == partial_steps[test.n]
       IN  test' = [test EXCEPT
                       !.padded_chunk = PtrCopy(test.padded_chunk, test.partial_chunk,
                                                test.byte_offset, step),
                       !.byte_offset  = OrBits(test.byte_offset,
                                               AndBits(step, Len(test.partial_chunk))),
                       !.n            = test.n + 1]
    /\ UNCHANGED <<width, big_endian, state, log, op, digest, history>>

\* write after the loop: the padded chunk is absorbed and the state stored.
WriteEnd ==
    /\ test # <<>>
    /\ test.pc = "loop"
    /\ test.n > Len(partial_steps)
    /\ test' = [test EXCEPT !.pc = "done"]
    /\ Absorbed("write", test.bytes,
                write_usize(test.copy, from_ne_bytes(test.padded_chunk)))

NextPad ==
    \/ \E bytes \in Slices : WriteBegin(bytes)
    \/ PadStep
    \/ WriteEnd

SpecPad == InitFn /\ [][NextPad]_vars

(***************************************************************************)
(* SpecPair: two hashers that have each absorbed one of Words, which       *)
(* leaves them in two different states, then absorb the same words.  The   *)
(* first is the hasher of the variables; test holds the second: the word   *)
(* it started with and its state.                                          *)
(***************************************************************************)
InitPair ==
    /\ width \in {32, 64}
    /\ big_endian \in BOOLEAN
    /\ \E seed \in Words :
        /\ state = write_usize(Hasher(Zeros(USIZE_BYTES)), seed).state
        /\ log = <<seed>>
        /\ op = [name |-> "write_usize", arg |-> seed, pre |-> Zeros(USIZE_BYTES)]
        /\ history = <<[name |-> "write_usize", arg |-> seed, ret |-> <<>>]>>
    /\ digest = <<>>
    /\ \E seed \in Words :
        /\ seed # state
        /\ test = [seed |-> seed, other |-> write_usize(Hasher(Zeros(USIZE_BYTES)), seed).state]

\* Both hashers absorb the word i.
AbsorbBoth(i) ==
    /\ Len(history) < MaxOps
    /\ test' = [test EXCEPT !.other = write_usize(Hasher(test.other), i).state]
    /\ Absorbed("write_usize", i, write_usize(Hasher(state), i))

NextPair == \E i \in SeqWords : AbsorbBoth(i)

SpecPair == InitPair /\ [][NextPair]_vars

(***************************************************************************)
(* Arithmetic for the properties: words as numbers, bit by bit.            *)
(***************************************************************************)
\* Bytes k.. of a + b modulo the width of a, given the carry into byte k.
RECURSIVE AddFrom(_, _, _, _)
AddFrom(a, b, k, carry) ==
    IF k > Len(a) THEN <<>>
    ELSE LET t == a[k] + b[k] + carry
         IN  <<t % 256>> \o AddFrom(a, b, k + 1, t \div 256)

AddWords(a, b) == AddFrom(a, b, 1, 0)

\* 2 * a modulo the width of a, byte by byte from byte k, given the bit shifted into byte k.
RECURSIVE DoubleFrom(_, _, _)
DoubleFrom(a, k, carry) ==
    IF k > Len(a) THEN <<>>
    ELSE <<(2 * a[k] + carry) % 256>> \o DoubleFrom(a, k + 1, a[k] \div 128)

\* a * m modulo the width of a, for a number m: by doubling, one bit of m at a time.
RECURSIVE Times(_, _)
Times(a, m) ==
    IF m = 0 THEN Zeros(Len(a))
    ELSE AddWords(IF m % 2 = 1 THEN a ELSE Zeros(Len(a)),
                  DoubleFrom(Times(a, m \div 2), 1, 0))

\* a * 256 modulo the width of a
Times256(a) == [k \in 1..Len(a) |-> IF k = 1 THEN 0 ELSE a[k - 1]]

\* a * (the number whose bytes are b[k..]) modulo the width of a
RECURSIVE TimesBytes(_, _, _)
TimesBytes(a, b, k) ==
    IF k > Len(b) THEN Zeros(Len(a))
    ELSE AddWords(Times(a, b[k]), Times256(TimesBytes(a, b, k + 1)))

\* a * b modulo 2^(8 * nbytes)
Product(a, b, nbytes) == TimesBytes(Cast(a, nbytes), b, 1)

\* a < b as numbers, comparing from byte k down
RECURSIVE LessFrom(_, _, _)
LessFrom(a, b, k) ==
    IF k = 0 THEN FALSE
    ELSE IF a[k] # b[k] THEN a[k] < b[k]
    ELSE LessFrom(a, b, k - 1)

Less(a, b) == LessFrom(a, b, Len(a))

\* The multiplier and the rotation the specification names for the word width.
SpecM == IF width = 64 THEN <<29, 221, 108, 79, 145, 244, 69, 37>> ELSE <<181, 119, 146, 44>>

SpecR == IF width = 64 THEN 41 ELSE 21

\* The word whose bytes in memory, lowest address first, are mem.
Native(mem) == [k \in 1..Len(mem) |-> IF big_endian THEN mem[Len(mem) + 1 - k] ELSE mem[k]]

\* The content words the slice b is read as: its whole chunks, then its trailing
\* bytes at the low addresses of a zero-filled word.
ContentWords(b) ==
    LET B == width \div 8
        q == Len(b) \div B
        r == Len(b) % B
    IN  [c \in 1..(q + 1) |->
            Native([k \in 1..B |->
                IF c <= q THEN b[(c - 1) * B + k]
                ELSE IF k <= r THEN b[q * B + k] ELSE 0])]

\* The state after write_usize of each of words[k..], from state s.
RECURSIVE AbsorbAll(_, _, _)
AbsorbAll(s, words, k) ==
    IF k > Len(words) THEN s
    ELSE AbsorbAll(write_usize(Hasher(s), words[k]).state, words, k + 1)

\* The absorbs among the calls h.
Absorbs(h) == SelectSeq(h, LAMBDA c : c.name # "finish")

C2_WriteUsize ==
    op.name = "write_usize" =>
        LET p == Product(op.pre, SpecM, width \div 8)
        IN  /\ Len(state) = width \div 8
            /\ \A k \in 0..(width - 1) :
                   Bit(state, k) = (Bit(p, (k + SpecR) % width) + Bit(op.arg, k)) % 2
            /\ op.pre = Zeros(width \div 8) => state = op.arg

\* write_usize on a state whose product with M overflows the word, with a word that has bits set
C2_Witness ==
    /\ op.name = "write_usize"
    /\ op.pre = Ones(USIZE_BYTES)
    /\ op.arg = M
    /\ Len(history) = 2

(***************************************************************************)
(* C3: finish returns (lo - hi) mod 2^W zero-extended to 64 bits, lo and   *)
(* hi the low and the high W bits of the 2W-bit product s * M; hi > lo     *)
(* wraps.                                                                  *)
(***************************************************************************)
C3_Finish ==
    op.name = "finish" =>
        LET n  == width \div 8
            p  == Product(op.pre, SpecM, 2 * n)
            lo == SubSeq(p, 1, n)
            hi == SubSeq(p, n + 1, 2 * n)
        IN  /\ Len(digest) = 8
            /\ AddWords(SubSeq(digest, 1, n), hi) = lo
            /\ \A k \in (n + 1)..8 : digest[k] = 0

\* finish on a 32-bit build where the high half exceeds the low half
C3_Witness ==
    /\ op.name = "finish"
    /\ width = 32
    /\ LET p == WideMul(state, M)
       IN  Less(SubSeq(p, 1, 4), SubSeq(p, 5, 8))
    /\ digest # Zeros(8)

(***************************************************************************)
(* C4: finish never changes the state.  The state is always the one the    *)
(* absorbs alone lead to, each finish returned the digest of the absorbs   *)
(* before it, and two finish calls in a row returned the same digest.      *)
(***************************************************************************)
C4_FinishLeavesState ==
    /\ state = Replay(Zeros(USIZE_BYTES), history, 1, Len(history))
    /\ op.name = "finish" => state = op.pre
    /\ \A k \in 1..Len(history) :
           history[k].name = "finish" =>
               /\ history[k].ret = finish(Replay(Zeros(USIZE_BYTES), Absorbs(SubSeq(history, 1, k)), 1,
                                                 Len(Absorbs(SubSeq(history, 1, k)))))
               /\ (k > 1 /\ history[k - 1].name = "finish") => history[k].ret = history[k - 1].ret

\* finish, finish, an absorb that changes the state, finish
C4_Witness ==
    /\ Len(history) = 4
    /\ history[1].name = "finish"
    /\ history[2].name = "finish"
    /\ history[3].name = "write"
    /\ history[4].name = "finish"
    /\ history[4].ret # history[2].ret

(***************************************************************************)
(* C5: absorbing an empty slice is never a no-op: write(&[]) changes the   *)
(* state, whatever state a fresh hasher has reached, the zero state        *)
(* included.                                                               *)
(***************************************************************************)
C5_EmptyWriteChangesState ==
    (op.name = "write" /\ op.arg = <<>>) => state # op.pre

(***************************************************************************)
(* C6: on fresh hashers, write(&[]) then write(&[0]), write(&[0]) then     *)
(* write(&[]), and write(&[0]) alone give three different digests.         *)
(***************************************************************************)
C6_Sequences ==
    LET e == [name |-> "write", arg |-> <<>>, ret |-> <<>>]
        z == [name |-> "write", arg |-> <<0>>, ret |-> <<>>]
    IN  {<<e, z>>, <<z, e>>, <<z>>}

C6_EmptyAndZeroByteDiffer ==
    (op.name = "finish" /\ Absorbs(history) \in C6_Sequences) =>
        \A other \in C6_Sequences \ {Absorbs(history)} :
            digest # finish(Replay(Zeros(USIZE_BYTES), other, 1, Len(other)))

(***************************************************************************)
(* C7: two slices of different lengths with the same number of whole       *)
(* chunks and the same zero-padded content words leave different states,   *)
(* from every state.                                                       *)
(***************************************************************************)
C7_Colliders(a) ==
    {b \in Slices : Len(b) # Len(a) /\ ContentWords(b) = ContentWords(a)}

C7_LengthPrefix ==
    op.name = "write" =>
        \A b \in C7_Colliders(op.arg) : write(Hasher(op.pre), b).state # state

\* "hel" and a zero byte: "hel" with one to four more zero bytes pads to the same word
C7_Witness ==
    /\ op.name = "write"
    /\ op.arg = <<104, 101, 108, 0>>
    /\ op.pre = M
    /\ width = 64
    /\ Cardinality(C7_Colliders(op.arg)) >= 4

(***************************************************************************)
(* C8: for every 8-bit input window i (0..W-8) and every 16-bit output     *)
(* window j (0..W-16), the 256 values of bits j..j+15 of the digest of     *)
(* b << i, b = 0..255, hold at least 255 different values.                 *)
(***************************************************************************)
C8_SubwordCollisions == test # <<>> => test.len >= 255

\* the last input window and the last output window of a 64-bit word
C8_Witness ==
    /\ test # <<>>
    /\ width = 64
    /\ test.i = 56
    /\ test.j = 48
    /\ test.len >= 255

(***************************************************************************)
(* C9: any bit of the state can affect any bit of the digest: for every    *)
(* state bit i and digest bit j there is a state s such that finish of s   *)
(* and of s with bit i flipped differ in bit j.  Such a state is among the *)
(* states of a run of MaxProbes absorbs.                                   *)
(***************************************************************************)
C9_EveryBitAffectsEveryBit ==
    test.n = MaxProbes =>
        \A i \in 0..(width - 1) : \A j \in 0..(width - 1) : j \in test.affected[i]

\* the top bit of a 64-bit state has changed the lowest digest bit, and the lowest the top
C9_Witness ==
    /\ width = 64
    /\ test.n = MaxProbes
    /\ 0 \in test.affected[63]
    /\ 63 \in test.affected[0]

(***************************************************************************)
(* C10: each integer absorb is a fixed sequence of write_usize calls on    *)
(* the value's bit pattern taken as unsigned and zero-extended.  As        *)
(* claimed: one call for the types no wider than a word, and two calls,    *)
(* the low part first, for u128, i128 and, on 32-bit builds, u64 and i64.  *)
(***************************************************************************)
\* The type of the most recent call, an integer absorb.
C10_Type == CHOOSE ty \in IntTypes : ty.name = op.name

\* The words of the log laid end to end, the first word lowest.
RECURSIVE C10_Flat(_, _)
C10_Flat(words, k) ==
    IF k > Len(words) THEN <<>> ELSE words[k] \o C10_Flat(words, k + 1)

\* The bytes p are the value i of ty taken as unsigned, zero-extended to Len(p) bytes.
C10_IsPattern(p, ty, i) ==
    /\ Len(p) >= ty.bytes
    /\ \A k \in (ty.bytes + 1)..Len(p) : p[k] = 0
    /\ IF ty.signed
       THEN IF i.neg /\ i.mag # Zeros(ty.bytes)
            THEN AddWords(SubSeq(p, 1, ty.bytes), i.mag) = Zeros(ty.bytes)
            ELSE SubSeq(p, 1, ty.bytes) = i.mag
       ELSE SubSeq(p, 1, ty.bytes) = i

C10_IsIntCall == op.name \in {ty.name : ty \in IntTypes}

C10_IntegerAbsorbs ==
    C10_IsIntCall =>
        LET ty == C10_Type
        IN  /\ Len(log) = IF ty.bytes = 16 \/ (ty.bytes = 8 /\ width = 32) THEN 2 ELSE 1
            /\ C10_IsPattern(C10_Flat(log, 1), ty, op.arg)
            /\ state = AbsorbAll(op.pre, log, 1)

(***************************************************************************)
(* C10, amended: u128 and i128 are absorbed as two u64 absorbs, the low 64 *)
(* bits first, so a value wider than a word is absorbed a word at a time,  *)
(* least significant word first: two calls for 64 bits on a 32-bit build   *)
(* and for 128 bits on a 64-bit build, four for 128 bits on a 32-bit       *)
(* build.                                                                  *)
(***************************************************************************)
C10_IntegerAbsorbsByWords ==
    C10_IsIntCall =>
        LET ty == C10_Type
            B  == width \div 8
        IN  /\ Len(log) = IF ty.bytes <= B THEN 1 ELSE ty.bytes \div B
            /\ C10_IsPattern(C10_Flat(log, 1), ty, op.arg)
            /\ state = AbsorbAll(op.pre, log, 1)
            /\ (op.name = "write_i8" /\ op.arg = [neg |-> TRUE, mag |-> <<1>>])
                   => log = <<Usize(255)>>

\* write_i128 of a negative value of mixed bytes on a 32-bit build: four words
C10_Witness ==
    /\ op.name = "write_i128"
    /\ width = 32
    /\ op.arg = [neg |-> TRUE, mag |-> Ramp(16)]
    /\ Len(log) = 4
    /\ op.pre = M

(***************************************************************************)
(* C11: the loop over partial_steps stays in bounds.  For every remainder  *)
(* length r in 0..USIZE_BYTES-1, before the copy of every iteration        *)
(* byte_offset <= r and byte_offset + step <= USIZE_BYTES - 1; the copy    *)
(* reads partial_chunk only when r & step # 0, and then                    *)
(* byte_offset + step <= r; otherwise its source is its destination, the   *)
(* same range of padded_chunk; after the last iteration byte_offset = r.   *)
(***************************************************************************)
C11_PaddingInBounds ==
    (test # <<>> /\ test.pc = "loop") =>
        LET r   == Len(test.partial_chunk)
            off == test.byte_offset
        IN  /\ r \in 0..((width \div 8) - 1)
            /\ off <= r
            /\ test.n <= Len(partial_steps) =>
                   LET step == partial_steps[test.n]
                       src  == src_ptr(test.partial_chunk, off, step)
                       dst  == dst_ptr(off)
                   IN  /\ off + step <= (width \div 8) - 1
                       /\ dst.buf = "padded_chunk"
                       /\ dst.at = off
                       /\ dst.at + step <= Len(test.padded_chunk)
                       /\ src.buf = "partial_chunk" <=> AndBits(r, step) # 0
                       /\ src.buf = "partial_chunk" => src.at = off /\ src.at + step <= r
                       /\ src.buf # "partial_chunk" => src = dst
            /\ test.n > Len(partial_steps) => off = r

\* A write of 13 bytes on a 64-bit build returned: the remainder of 5 bytes was
\* packed by a copy of 4 bytes, a copy of padded_chunk onto itself and a copy
\* of 1 byte, and the state is the one write leaves.
C11_Witness ==
    /\ test # <<>>
    /\ test.pc = "done"
    /\ width = 64
    /\ Len(test.bytes) = 13
    /\ test.byte_offset = 5
    /\ test.padded_chunk = Cast(test.partial_chunk, 8)
    /\ test.partial_chunk[5] # 0
    /\ state = write(Hasher(op.pre), test.bytes).state

(***************************************************************************)
(* C12: write_usize never merges states.  M is odd, so it has an inverse   *)
(* modulo 2^W and the multiplication is a bijection; the rotation is       *)
(* undone by the rotation by W - R.  For a fixed word i the state before   *)
(* is recovered from the state after, and every state is the state after   *)
(* of some state before; for a fixed state the word is recovered from the  *)
(* state after, and other words leave other states.  Two hashers in        *)
(* different states that absorb the same words are in different states     *)
(* after every absorb.                                                     *)
(***************************************************************************)
\* The inverses of M: 0x59071d96d81ecd35 modulo 2^64, 0xcc2bfe9d modulo 2^32.
C12_InverseM ==
    IF width = 64 THEN <<53, 205, 30, 216, 150, 29, 7, 89>> ELSE <<157, 254, 43, 204>>

\* The state that write_usize(i) turns into the state y.
C12_Unabsorb(y, i) ==
    Product(rotate_right(Xor(y, i), width - R), C12_InverseM, width \div 8)

C12_NeverMerges ==
    /\ Bit(M, 0) = 1
    /\ Product(M, C12_InverseM, width \div 8) = Usize(1)
    /\ state # test.other
    /\ Len(history) >= 2 =>
        /\ C12_Unabsorb(state, op.arg) = op.pre
        /\ rotate_right(rotate_right(op.pre, R), width - R) = op.pre
        /\ \A y \in Words :
               write_usize(Hasher(C12_Unabsorb(y, op.arg)), op.arg).state = y
        /\ Xor(state, write_usize(Hasher(op.pre), Zeros(width \div 8)).state) = op.arg
        /\ \A j \in Words \ {op.arg} : write_usize(Hasher(op.pre), j).state # state

\* Two hashers that started in the states 0 and 2^(W-1), which differ in the
\* top bit only, have absorbed the same two words, the second of them all ones.
C12_Witness ==
    /\ Len(history) = 3
    /\ history[1].arg = Zeros(USIZE_BYTES)
    /\ test.seed = TopBit(USIZE_BYTES)
    /\ op.arg = Ones(USIZE_BYTES)
    /\ state # test.other
====
